---- MODULE Spec2Model ----
(***************************************************************************)
(* A model of the SBND plot style (sbnd_style.py) and of its demonstration *)
(* script (test.py).                                                       *)
(*                                                                         *)
(* Conventions.                                                            *)
(*  - A Python string is a sequence of one-character strings, so that the  *)
(*    f-string formatting of text_label is real concatenation and the      *)
(*    drawn text can be scanned character by character.                    *)
(*  - A Python float with two decimals is the integer of its hundredths:   *)
(*    0.05 is 5, 0.95 is 95, the colour (0.90, 0.60, 0.00) is <<90,60,0>>. *)
(*  - A Python dict (props, **kwargs) is a set of <<key, value>> pairs     *)
(*    with at most one pair per key.                                       *)
(***************************************************************************)
EXTENDS Integers, Sequences, FiniteSets, TLC

VARIABLES
    load,           \* how far the import of sbnd_style has run
    ns,             \* the names the sbnd_style module has bound so far
    cmap_registry,  \* matplotlib's process-wide colormap registry (user entries)
    rcParams,       \* matplotlib's process-wide rc configuration
    rcBefore,       \* rcParams as it was when the last set_sbnd_style call began
                    \* (the current rcParams, when the last operation was another)
    edits,          \* number of direct rcParams assignments made by the caller
    texts,          \* the ax.text calls recorded so far, oldest first
    last,           \* the last caller-level operation and how it ended
    entry,          \* the entry point of test.py this run uses
    n_arg,          \* n_hists, when the entry point calls gauss_hists(n_hists)
    call,           \* index of the statement of the entry point being run
    stmt,           \* index of the next statement of the running example
    datasets,       \* the value of `datasets` in the entry point
    figs,           \* per example: its figure's state, saves and recorded calls
    raised          \* whether an exception left the entry point

vars == <<load, ns, cmap_registry, rcParams, rcBefore, edits, texts, last,
          entry, n_arg, call, stmt, datasets, figs, raised>>

styleVars == <<rcParams, rcBefore, edits>>
demoVars  == <<entry, n_arg, call, stmt, datasets, figs, raised>>

----------------------------------------------------------------------------
(* Python helpers                                                          *)

\* dict.get(key, default)
Get(d, key, default) ==
    IF \E p \in d : p[1] = key
    THEN (CHOOSE p \in d : p[1] = key)[2]
    ELSE default

\* the dict without the given keys
Without(d, keys) == {p \in d : p[1] \notin keys}

Min(a, b) == IF a < b THEN a ELSE b

\* lst[:k] for k >= 0
SliceTo(lst, k) == SubSeq(lst, 1, Min(k, Len(lst)))

----------------------------------------------------------------------------
(* Colour definitions, sbnd_style.py lines 20-46                           *)

OKABE_ITO_ORANGE     == <<90, 60, 0>>
OKABE_ITO_SKY_BLUE   == <<35, 70, 90>>
OKABE_ITO_BLUE_GREEN == <<0, 60, 50>>
OKABE_ITO_YELLOW     == <<95, 90, 25>>
OKABE_ITO_BLUE       == <<0, 45, 70>>
OKABE_ITO_VERMILION  == <<80, 30, 0>>
OKABE_ITO_RED_PURPLE == <<80, 60, 70>>
OKABE_ITO_BLACK      == <<0, 0, 0>>
WHITE                == <<100, 100, 100>>

OKABE_ITO_COLOR_CYCLE ==
    << OKABE_ITO_BLACK,
       OKABE_ITO_VERMILION,
       OKABE_ITO_SKY_BLUE,
       OKABE_ITO_ORANGE,
       OKABE_ITO_BLUE_GREEN,
       OKABE_ITO_RED_PURPLE,
       OKABE_ITO_BLUE,
       OKABE_ITO_YELLOW >>

\* the four colours with blue-green and blue exchanged
SBND_COLOR_CYCLE_swapped ==
    << OKABE_ITO_VERMILION,
       OKABE_ITO_BLUE,
       OKABE_ITO_BLUE_GREEN,
       OKABE_ITO_SKY_BLUE >>

SBND_COLOR_CYCLE ==
    << OKABE_ITO_VERMILION,
       OKABE_ITO_BLUE_GREEN,
       OKABE_ITO_BLUE,
       OKABE_ITO_SKY_BLUE >>

----------------------------------------------------------------------------
(* Custom colormaps, sbnd_style.py lines 53-71                             *)

\* LinearSegmentedColormap.from_list(name, colors): the gradient is kept as
\* its name and its ordered colour stops.
from_list(name, colors) == [name |-> name, colors |-> colors]

\* _register_cmap(name, colors, register=True), for a name the registry does
\* not hold yet: the only calls the module itself makes.  What
\* plt.register_cmap does with a name already present is matplotlib's
\* decision and is not modelled.
_register_cmap(name, colors) ==
    /\ name \notin DOMAIN cmap_registry
    /\ cmap_registry' = (name :> from_list(name, colors)) @@ cmap_registry

SEA_STOPS       == <<WHITE, OKABE_ITO_BLUE>>
SYMMETRIC_STOPS == <<OKABE_ITO_BLUE, WHITE, OKABE_ITO_VERMILION>>

----------------------------------------------------------------------------
(* Text labels, sbnd_style.py lines 77-126                                 *)

BS == "\\"
mathrm == <<BS, "m", "a", "t", "h", "r", "m">>
mathbf == <<BS, "m", "a", "t", "h", "b", "f">>
mathit == <<BS, "m", "a", "t", "h", "i", "t">>

\* f"\\cmd{{{s}}}"
Braced(cmd, s) == cmd \o <<"{">> \o s \o <<"}">>

SBND == <<"S", "B", "N", "D">>

WipSuffix ==
    <<BS, ";", "W", "o", "r", "k", BS, ";", "i", "n",
      BS, ";", "P", "r", "o", "g", "r", "e", "s", "s">>

\* the suffix written with plain spaces, as before the fix noted at line 114
WipSuffixPlain ==
    <<" ", "W", "o", "r", "k", " ", "i", "n",
      " ", "P", "r", "o", "g", "r", "e", "s", "s">>

PreliminarySuffix ==
    <<BS, ";", "P", "r", "e", "l", "i", "m", "i", "n", "a", "r", "y">>

\* the watermark segment without its weight
_sbnd_watermark_string_plain == << [s |-> SBND, props |-> {}] >>

\* line 79: [('SBND', {'fontweight': 'bold'})]
_sbnd_watermark_string ==
    << [s |-> SBND, props |-> {<<"fontweight", "bold">>}] >>

\* lines 96-104: the mathtext command of one (s, props) segment
s_cmd(seg) ==
    LET weight == Get(seg.props, "fontweight", "normal")
        style  == Get(seg.props, "fontstyle", "normal")
        c0 == Braced(mathrm, seg.s)
        c1 == IF weight = "bold" THEN Braced(mathbf, seg.s) ELSE c0
        c2 == IF style = "italic" THEN Braced(mathit, c1) ELSE c1
    IN  c2

\* lines 94-106: the loop that concatenates the segments' commands
RECURSIVE styled_text(_)
styled_text(text_list) ==
    IF text_list = <<>> THEN <<>>
    ELSE s_cmd(Head(text_list)) \o styled_text(Tail(text_list))

\* line 108
final_text(text_list) == <<"$">> \o styled_text(text_list) \o <<"$">>

\* text_label without the caller's position
text_label_at_origin(ax, text_list, pos, kw) ==
    texts' = Append(texts,
        [ ax        |-> ax,
          x         |-> 0,
          y         |-> 0,
          s         |-> final_text(text_list),
          ha        |-> Get(kw, "ha", "left"),
          va        |-> Get(kw, "va", "top"),
          transform |-> "transAxes",
          kwargs    |-> Without(kw, {"ha", "va"}) ])

\* lines 81-109.  The keyword arguments the caller gave are x and y
\* (hundredths) in pos and everything else in kw, where no key of kw is a
\* name ax.text is already given (text_list, transform).  ha and va bind to
\* the named parameters, the rest of kw is **kwargs and goes to ax.text
\* unchanged.
text_label(ax, text_list, pos, kw) ==
    texts' = Append(texts,
        [ ax        |-> ax,
          x         |-> Get(pos, "x", 5),
          y         |-> Get(pos, "y", 95),
          s         |-> final_text(text_list),
          ha        |-> Get(kw, "ha", "left"),
          va        |-> Get(kw, "va", "top"),
          transform |-> "transAxes",
          kwargs    |-> Without(kw, {"ha", "va"}) ])

\* the x=x, y=y that wip, preliminary and official pass on (defaults 0.05, 0.95)
PassXY(pos) == {<<"x", Get(pos, "x", 5)>>, <<"y", Get(pos, "y", 95)>>}

\* wip with the plain-space suffix
wip_plain_spaces(ax, pos, kw) ==
    text_label(ax, _sbnd_watermark_string \o << [s |-> WipSuffixPlain, props |-> {}] >>,
               PassXY(pos), kw)

\* lines 112-116
wip(ax, pos, kw) ==
    text_label(ax, _sbnd_watermark_string \o << [s |-> WipSuffix, props |-> {}] >>,
               PassXY(pos), kw)

\* lines 118-122
preliminary(ax, pos, kw) ==
    text_label(ax, _sbnd_watermark_string \o << [s |-> PreliminarySuffix, props |-> {}] >>,
               PassXY(pos), kw)

\* lines 124-126
official(ax, pos, kw) ==
    text_label(ax, _sbnd_watermark_string, PassXY(pos), kw)

----------------------------------------------------------------------------
(* Main style setter, sbnd_style.py lines 131-188                          *)

\* the configuration with matplotlib's own font size left in
style_dict_small_font ==
    ("figure.facecolor" :> "white") @@
    ("figure.figsize" :> <<8, 6>>) @@
    ("figure.dpi" :> 100) @@
    ("font.family" :> "sans-serif") @@
    ("font.sans-serif" :> <<"Helvetica", "Arial", "Liberation Sans", "DejaVu Sans">>) @@
    ("font.size" :> 10) @@
    ("text.usetex" :> FALSE) @@
    ("axes.facecolor" :> "white") @@
    ("axes.grid" :> FALSE) @@
    ("axes.titlesize" :> "large") @@
    ("axes.labelsize" :> "large") @@
    ("axes.labelweight" :> "normal") @@
    ("axes.edgecolor" :> "black") @@
    ("axes.linewidth" :> 2) @@
    ("axes.prop_cycle" :> OKABE_ITO_COLOR_CYCLE) @@
    ("axes.titlelocation" :> "center") @@
    ("xtick.major.size" :> 7) @@
    ("xtick.minor.size" :> 4) @@
    ("xtick.direction" :> "in") @@
    ("xtick.labelsize" :> "medium") @@
    ("ytick.major.size" :> 7) @@
    ("ytick.minor.size" :> 4) @@
    ("ytick.direction" :> "in") @@
    ("ytick.labelsize" :> "medium") @@
    ("xtick.top" :> TRUE) @@
    ("ytick.right" :> TRUE) @@
    ("lines.linewidth" :> 2) @@
    ("lines.markersize" :> 6) @@
    ("lines.marker" :> "o") @@
    ("legend.frameon" :> FALSE) @@
    ("legend.fontsize" :> "medium") @@
    ("hist.bins" :> 20) @@
    ("image.cmap" :> "cividis")

\* lines 133-183.  cycler(color=OKABE_ITO_COLOR_CYCLE) is kept as the colour list.
style_dict ==
    ("figure.facecolor" :> "white") @@
    ("figure.figsize" :> <<8, 6>>) @@
    ("figure.dpi" :> 100) @@
    ("font.family" :> "sans-serif") @@
    ("font.sans-serif" :> <<"Helvetica", "Arial", "Liberation Sans", "DejaVu Sans">>) @@
    ("font.size" :> 14) @@
    ("text.usetex" :> FALSE) @@
    ("axes.facecolor" :> "white") @@
    ("axes.grid" :> FALSE) @@
    ("axes.titlesize" :> "large") @@
    ("axes.labelsize" :> "large") @@
    ("axes.labelweight" :> "normal") @@
    ("axes.edgecolor" :> "black") @@
    ("axes.linewidth" :> 2) @@
    ("axes.prop_cycle" :> OKABE_ITO_COLOR_CYCLE) @@
    ("axes.titlelocation" :> "center") @@
    ("xtick.major.size" :> 7) @@
    ("xtick.minor.size" :> 4) @@
    ("xtick.direction" :> "in") @@
    ("xtick.labelsize" :> "medium") @@
    ("ytick.major.size" :> 7) @@
    ("ytick.minor.size" :> 4) @@
    ("ytick.direction" :> "in") @@
    ("ytick.labelsize" :> "medium") @@
    ("xtick.top" :> TRUE) @@
    ("ytick.right" :> TRUE) @@
    ("lines.linewidth" :> 2) @@
    ("lines.markersize" :> 6) @@
    ("lines.marker" :> "o") @@
    ("legend.frameon" :> FALSE) @@
    ("legend.fontsize" :> "medium") @@
    ("hist.bins" :> 20) @@
    ("image.cmap" :> "cividis")

StyleKeys == DOMAIN style_dict

\* who runs a statement of sbnd_style: the import itself, or later a caller
Caller == IF load = "done" THEN "caller" ELSE "import"

\* plt.style.use(d), line 184: every key of d is written to rcParams, every
\* other key of rcParams keeps its value.  (matplotlib's validators may
\* change a value's representation, 14 to 14.0; values are compared as
\* numbers here.)
style_use(d) ==
    rcParams' = [k \in DOMAIN rcParams |-> IF k \in DOMAIN d THEN d[k] ELSE rcParams[k]]

\* what a set_sbnd_style taking an override mapping would do
set_sbnd_style_merging(args) ==
    LET ov == IF args = <<>> THEN {} ELSE args[1]
        merged == [k \in StyleKeys |-> Get(ov, k, style_dict[k])]
    IN  /\ rcBefore' = rcParams
        /\ style_use(merged)
        /\ last' = [op |-> "set_sbnd_style", by |-> Caller, args |-> args, outcome |-> "ok"]

\* lines 131-184.  args is the tuple of arguments of the call.  The function
\* declares no parameter, so a call with any argument raises TypeError
\* before its body runs.  rcBefore and last note the call for the properties
\* below.
set_sbnd_style(args) ==
    /\ rcBefore' = rcParams
    /\ IF args # <<>>
       THEN /\ UNCHANGED rcParams
            /\ last' = [op |-> "set_sbnd_style", by |-> Caller, args |-> args, outcome |-> "TypeError"]
       ELSE /\ style_use(style_dict)
            /\ last' = [op |-> "set_sbnd_style", by |-> Caller, args |-> args, outcome |-> "ok"]

----------------------------------------------------------------------------
(* The ambient configuration outside the style's control                   *)

\* rc options the style does not set, with the value each holds before any
\* caller touches it
ExtraDefaults ==
    ("lines.linestyle" :> "-") @@
    ("savefig.dpi" :> 100)

RcKeys == StyleKeys \cup DOMAIN ExtraDefaults

\* for every option, a valid value other than the style's (or the extra's)
OtherValue ==
    ("figure.facecolor" :> "gray") @@
    ("figure.figsize" :> <<6, 4>>) @@
    ("figure.dpi" :> 72) @@
    ("font.family" :> "serif") @@
    ("font.sans-serif" :> <<"DejaVu Sans">>) @@
    ("font.size" :> 10) @@
    ("text.usetex" :> TRUE) @@
    ("axes.facecolor" :> "gray") @@
    ("axes.grid" :> TRUE) @@
    ("axes.titlesize" :> "small") @@
    ("axes.labelsize" :> "medium") @@
    ("axes.labelweight" :> "bold") @@
    ("axes.edgecolor" :> "gray") @@
    ("axes.linewidth" :> 1) @@
    ("axes.prop_cycle" :> <<OKABE_ITO_BLUE, OKABE_ITO_ORANGE>>) @@
    ("axes.titlelocation" :> "left") @@
    ("xtick.major.size" :> 3) @@
    ("xtick.minor.size" :> 2) @@
    ("xtick.direction" :> "out") @@
    ("xtick.labelsize" :> "small") @@
    ("ytick.major.size" :> 3) @@
    ("ytick.minor.size" :> 2) @@
    ("ytick.direction" :> "out") @@
    ("ytick.labelsize" :> "small") @@
    ("xtick.top" :> FALSE) @@
    ("ytick.right" :> FALSE) @@
    ("lines.linewidth" :> 1) @@
    ("lines.markersize" :> 3) @@
    ("lines.marker" :> "None") @@
    ("legend.frameon" :> TRUE) @@
    ("legend.fontsize" :> "small") @@
    ("hist.bins" :> 10) @@
    ("image.cmap" :> "viridis") @@
    ("lines.linestyle" :> "--") @@
    ("savefig.dpi" :> 300)

UsualValue(k) == IF k \in StyleKeys THEN style_dict[k] ELSE ExtraDefaults[k]

RcValues(k) == {UsualValue(k), OtherValue[k]}

\* bounds of the caller's activity
MaxPrior == 1
MaxEdits == 2
MaxTexts == 2
MaxSegs  == 2

RECURSIVE KeySetsUpTo(_)
KeySetsUpTo(n) ==
    IF n = 0 THEN {{}}
    ELSE LET P == KeySetsUpTo(n - 1) IN P \cup {s \cup {k} : s \in P, k \in RcKeys}

\* the configurations the process may hold when sbnd_style is imported:
\* no option at the style's value, or all but at most MaxPrior of them
PriorConfigs ==
    { [k \in RcKeys |-> IF k \in S THEN UsualValue(k) ELSE OtherValue[k]] :
        S \in KeySetsUpTo(MaxPrior) }

LibraryConfig == [k \in RcKeys |-> IF k \in StyleKeys THEN OtherValue[k] ELSE ExtraDefaults[k]]

\* the override mappings a caller tries to hand to set_sbnd_style
OverrideArgs ==
    { <<{}>>,
      <<{<<"font.size", 20>>}>>,
      <<{<<"font.size", 20>>, <<"hist.bins", 50>>}>> }

----------------------------------------------------------------------------
(* Import of sbnd_style: the module's top-level statements in order        *)

NoNames == [n \in {} |-> <<>>]

\* lines 20-46
LoadPalette ==
    /\ load = "start"
    /\ load' = "palette"
    /\ ns' = ("OKABE_ITO_COLOR_CYCLE" :> OKABE_ITO_COLOR_CYCLE) @@
             ("SBND_COLOR_CYCLE" :> SBND_COLOR_CYCLE)
    /\ UNCHANGED <<cmap_registry, styleVars, texts, last, demoVars>>

\* lines 61-64
LoadSea ==
    /\ load = "palette"
    /\ load' = "sea"
    /\ _register_cmap("sbnd_sea", SEA_STOPS)
    /\ ns' = ("SEA_PALETTE" :> from_list("sbnd_sea", SEA_STOPS)) @@ ns
    /\ UNCHANGED <<styleVars, texts, last, demoVars>>

\* lines 67-71
LoadSymmetric ==
    /\ load = "sea"
    /\ load' = "symmetric"
    /\ _register_cmap("sbnd_symmetric", SYMMETRIC_STOPS)
    /\ ns' = ("SYMMETRIC_PALETTE" :> from_list("sbnd_symmetric", SYMMETRIC_STOPS)) @@ ns
    /\ UNCHANGED <<styleVars, texts, last, demoVars>>

\* the import with line 188 commented out, as lines 3-6 describe
LoadStyle_skipped ==
    /\ load = "symmetric"
    /\ load' = "done"
    /\ last' = [op |-> "import", by |-> "import", args |-> <<>>, outcome |-> "ok"]
    /\ UNCHANGED <<ns, cmap_registry, styleVars, texts, demoVars>>

\* line 188: the style is applied as the last statement of the import
LoadStyle ==
    /\ load = "symmetric"
    /\ load' = "done"
    /\ set_sbnd_style(<<>>)
    /\ UNCHANGED <<ns, cmap_registry, edits, texts, demoVars>>

----------------------------------------------------------------------------
(* Calls made by code that has imported sbnd_style                         *)

Idle == [op |-> "none", by |-> "none", args |-> <<>>, outcome |-> "none"]

\* set_sbnd_style() and set_sbnd_style(overrides)
CallSetSbndStyle ==
    /\ load = "done"
    /\ \E args \in {<<>>} \cup OverrideArgs : set_sbnd_style(args)
    /\ UNCHANGED <<load, ns, cmap_registry, edits, texts, demoVars>>

\* matplotlib.rcParams[k] = v, by the caller
RcSet ==
    /\ load = "done"
    /\ edits < MaxEdits
    /\ \E k \in RcKeys : \E v \in RcValues(k) :
          /\ rcParams' = [rcParams EXCEPT ![k] = v]
          /\ last' = [op |-> "rcParams.__setitem__", by |-> "caller",
                      args |-> <<>>, outcome |-> "ok"]
    /\ rcBefore' = rcParams'
    /\ edits' = edits + 1
    /\ UNCHANGED <<load, ns, cmap_registry, texts, demoVars>>

\* the surface the caller draws on
CallerAx == <<"caller", 1>>

\* the (substring, props) segments a caller composes labels from
Segments ==
    { [s |-> SBND, props |-> {<<"fontweight", "bold">>}],
      [s |-> PreliminarySuffix, props |-> {}],
      [s |-> <<"f", "i", "t">>, props |-> {<<"fontstyle", "italic">>}] }

RECURSIVE ListsUpTo(_)
ListsUpTo(n) ==
    IF n = 0 THEN {<<>>}
    ELSE LET L == ListsUpTo(n - 1) IN L \cup {Append(l, g) : l \in L, g \in Segments}

\* the keyword arguments a caller gives: x and y, and the others
CallArgs ==
    { [pos |-> {},                           kw |-> {}],
      [pos |-> {<<"x", 10>>},                kw |-> {}],
      [pos |-> {<<"x", 10>>, <<"y", 90>>},   kw |-> {}],
      [pos |-> {},                           kw |-> {<<"ha", "right">>, <<"color", "red">>}],
      [pos |-> {<<"x", 10>>, <<"y", 90>>},   kw |-> {<<"ha", "center">>, <<"va", "bottom">>}] }

TextLabelArgs ==
    { [pos |-> {},                           kw |-> {}],
      [pos |-> {<<"x", 10>>, <<"y", 90>>},   kw |-> {<<"ha", "center">>, <<"va", "bottom">>}] }

Called(op, text_list, pos, kw) ==
    last' = [op |-> op, by |-> "caller",
             args |-> [text_list |-> text_list, pos |-> pos, kw |-> kw],
             outcome |-> "ok", before |-> Len(texts)]

CallTextLabel ==
    /\ load = "done"
    /\ Len(texts) < MaxTexts
    /\ \E text_list \in ListsUpTo(MaxSegs) : \E a \in TextLabelArgs :
          /\ text_label(CallerAx, text_list, a.pos, a.kw)
          /\ Called("text_label", text_list, a.pos, a.kw)
    /\ UNCHANGED <<load, ns, cmap_registry, styleVars, demoVars>>

CallWip ==
    /\ load = "done"
    /\ Len(texts) < MaxTexts
    /\ \E a \in CallArgs :
          /\ wip(CallerAx, a.pos, a.kw)
          /\ Called("wip", <<>>, a.pos, a.kw)
    /\ UNCHANGED <<load, ns, cmap_registry, styleVars, demoVars>>

CallPreliminary ==
    /\ load = "done"
    /\ Len(texts) < MaxTexts
    /\ \E a \in CallArgs :
          /\ preliminary(CallerAx, a.pos, a.kw)
          /\ Called("preliminary", <<>>, a.pos, a.kw)
    /\ UNCHANGED <<load, ns, cmap_registry, styleVars, demoVars>>

CallOfficial ==
    /\ load = "done"
    /\ Len(texts) < MaxTexts
    /\ \E a \in CallArgs :
          /\ official(CallerAx, a.pos, a.kw)
          /\ Called("official", <<>>, a.pos, a.kw)
    /\ UNCHANGED <<load, ns, cmap_registry, styleVars, demoVars>>

----------------------------------------------------------------------------
(* The demonstration script, test.py                                       *)

\* the largest n_hists a direct call of gauss_hists is given
MaxHists == 8

\* lines 16-23: dataset i (0-based) has mean 2*i - (n_hists - 1) and
\* 1000 * (i + 1) samples; the samples themselves are not kept
gauss_hists(n_hists) ==
    [i \in 1..n_hists |-> [loc |-> 2 * (i - 1) - (n_hists - 1), size |-> 1000 * i]]

\* one statement of an example: the call, what it does to the figure, the
\* axes it is made on (0: the figure or pyplot), its line in test.py
St(op, kind, ax, line) ==
    [op |-> op, kind |-> kind, ax |-> ax, line |-> line, n |-> 0, colors |-> <<>>]

\* lines 25-51
one_d_hist_example ==
    << St("subplots", "figure", 1, 27),
       St("hist", "data", 1, 33),
       St("errorbar", "data", 1, 40),
       St("set_xlabel", "decor", 1, 43),
       St("set_ylabel", "decor", 1, 44),
       St("set_ylim", "decor", 1, 45),
       St("legend", "decor", 1, 46),
       St("wip", "label", 1, 47),
       St("tight_layout", "layout", 0, 49),
       St("savefig", "save", 0, 50),
       St("close", "close", 0, 51) >>

\* data_mc_example with its label drawn once the figure is on disk
data_mc_example_label_after_save ==
    << St("subplots", "figure", 2, 55),
       St("errorbar", "data", 1, 68),
       St("plot", "data", 1, 69),
       St("set_ylabel", "decor", 1, 70),
       St("legend", "decor", 1, 71),
       St("errorbar", "data", 2, 78),
       St("axhline", "data", 2, 79),
       St("set_xlabel", "decor", 2, 80),
       St("set_ylabel", "decor", 2, 81),
       St("set_ylim", "decor", 2, 82),
       St("tight_layout", "layout", 0, 84),
       St("subplots_adjust", "layout", 0, 85),
       St("savefig", "save", 0, 86),
       St("preliminary", "label", 1, 72),
       St("close", "close", 0, 87) >>

\* lines 53-87: two axes, ax1 (1) on top and ax2 (2) below
data_mc_example ==
    << St("subplots", "figure", 2, 55),
       St("errorbar", "data", 1, 68),
       St("plot", "data", 1, 69),
       St("set_ylabel", "decor", 1, 70),
       St("legend", "decor", 1, 71),
       St("preliminary", "label", 1, 72),
       St("errorbar", "data", 2, 78),
       St("axhline", "data", 2, 79),
       St("set_xlabel", "decor", 2, 80),
       St("set_ylabel", "decor", 2, 81),
       St("set_ylim", "decor", 2, 82),
       St("tight_layout", "layout", 0, 84),
       St("subplots_adjust", "layout", 0, 85),
       St("savefig", "save", 0, 86),
       St("close", "close", 0, 87) >>

\* lines 89-132
two_d_example ==
    << St("subplots", "figure", 1, 91),
       St("pcolormesh", "data", 1, 103),
       St("colorbar", "data", 1, 104),
       St("contour", "data", 1, 121),
       St("set_xlabel", "decor", 1, 126),
       St("set_ylabel", "decor", 1, 127),
       St("official", "label", 1, 128),
       St("tight_layout", "layout", 0, 130),
       St("savefig", "save", 0, 131),
       St("close", "close", 0, 132) >>

\* lines 134-156
cov_example ==
    << St("subplots", "figure", 1, 136),
       St("imshow", "data", 1, 148),
       St("colorbar", "data", 1, 149),
       St("set_xlabel", "decor", 1, 150),
       St("set_ylabel", "decor", 1, 151),
       St("preliminary", "label", 1, 152),
       St("tight_layout", "layout", 0, 154),
       St("savefig", "save", 0, 155),
       St("close", "close", 0, 156) >>

\* the slice the comment at lines 164-165 describes
stacked_colors_okabe(ds) == SliceTo(ns["OKABE_ITO_COLOR_CYCLE"], Len(ds))

\* line 166: colors = sbnd_style.SBND_COLOR_CYCLE[:len(datasets)]
stacked_colors(ds) == SliceTo(ns["SBND_COLOR_CYCLE"], Len(ds))

\* lines 158-178: one ax.hist call for the whole list of datasets
stacked_example(ds) ==
    << St("subplots", "figure", 1, 160),
       [St("hist", "data", 1, 168) EXCEPT !.n = Len(ds), !.colors = stacked_colors(ds)],
       St("set_xlabel", "decor", 1, 171),
       St("set_ylabel", "decor", 1, 172),
       St("legend", "decor", 1, 173),
       St("wip", "label", 1, 174),
       St("tight_layout", "layout", 0, 176),
       St("savefig", "save", 0, 177),
       St("close", "close", 0, 178) >>

\* lines 180-195: one ax.hist call per dataset
overlay_example(ds) ==
    << St("subplots", "figure", 1, 182) >> \o
    [i \in 1..Len(ds) |-> St("hist", "data", 1, 185)] \o
    << St("set_xlabel", "decor", 1, 188),
       St("set_ylabel", "decor", 1, 189),
       St("legend", "decor", 1, 190),
       St("wip", "label", 1, 191),
       St("tight_layout", "layout", 0, 193),
       St("savefig", "save", 0, 194),
       St("close", "close", 0, 195) >>

Body(name) ==
    CASE name = "one_d_hist_example" -> one_d_hist_example
      [] name = "data_mc_example"    -> data_mc_example
      [] name = "two_d_example"      -> two_d_example
      [] name = "cov_example"        -> cov_example
      [] name = "stacked_example"    -> stacked_example(datasets)
      [] name = "overlay_example"    -> overlay_example(datasets)

Examples ==
    {"one_d_hist_example", "data_mc_example", "two_d_example", "cov_example",
     "stacked_example", "overlay_example"}

\* lines 197-208
main ==
    << [do |-> "example", name |-> "one_d_hist_example"],
       [do |-> "example", name |-> "data_mc_example"],
       [do |-> "example", name |-> "two_d_example"],
       [do |-> "example", name |-> "cov_example"],
       [do |-> "gauss_hists", name |-> "datasets"],
       [do |-> "example", name |-> "stacked_example"],
       [do |-> "example", name |-> "overlay_example"] >>

\* a caller that imports test.py and runs one of the two examples that take
\* datasets, on datasets it makes with gauss_hists(n_hists)
Direct(name) ==
    << [do |-> "gauss_hists", name |-> "datasets"],
       [do |-> "example", name |-> name] >>

Program ==
    CASE entry = "main"    -> main
      [] entry = "stacked" -> Direct("stacked_example")
      [] entry = "overlay" -> Direct("overlay_example")
      [] OTHER             -> <<>>

Running == load = "done" /\ ~raised /\ call \in 1..Len(Program)

Done == load = "done" /\ ~raised /\ call = Len(Program) + 1

AtExample == Running /\ Program[call].do = "example"

Cur == Program[call].name

Stmt == Body(Cur)[stmt]

\* the statement has run: on to the next one, or back to the entry point
Advance ==
    IF stmt < Len(Body(Cur))
    THEN stmt' = stmt + 1 /\ UNCHANGED call
    ELSE stmt' = 1 /\ call' = call + 1

Record(f, st) == [f EXCEPT !.events = Append(@, st)]

\* line 205 (n_hists defaults to len(sbnd_style.SBND_COLOR_CYCLE), line 16)
GaussHists ==
    /\ Running
    /\ Program[call].do = "gauss_hists"
    /\ datasets' = gauss_hists(IF entry = "main" THEN Len(ns["SBND_COLOR_CYCLE"]) ELSE n_arg)
    /\ call' = call + 1
    /\ UNCHANGED <<load, ns, cmap_registry, styleVars, texts, last,
                   entry, n_arg, stmt, figs, raised>>

\* fig, ax = plt.subplots(...)
Subplots ==
    /\ AtExample
    /\ Stmt.kind = "figure"
    /\ figs' = (Cur :> [state |-> "open", saves |-> 0, axes |-> Stmt.ax,
                        events |-> <<Stmt>>]) @@ figs
    /\ Advance
    /\ UNCHANGED <<load, ns, cmap_registry, styleVars, texts, last,
                   entry, n_arg, datasets, raised>>

\* matplotlib may refuse a hist call whose colour list is not as long as
\* its list of datasets
Mismatch(st) == st.n > 0 /\ Len(st.colors) # st.n

\* a call that draws data: hist, errorbar, plot, pcolormesh, contour, ...
DrawData ==
    /\ AtExample
    /\ Stmt.kind = "data"
    /\ figs' = [figs EXCEPT ![Cur] = Record(@, Stmt)]
    /\ Advance
    /\ UNCHANGED <<load, ns, cmap_registry, styleVars, texts, last,
                   entry, n_arg, datasets, raised>>

\* the hist call is made and raises: the exception leaves the entry point
HistRaises ==
    /\ AtExample
    /\ Stmt.kind = "data"
    /\ Mismatch(Stmt)
    /\ figs' = [figs EXCEPT ![Cur] = Record(@, Stmt)]
    /\ raised' = TRUE
    /\ UNCHANGED <<load, ns, cmap_registry, styleVars, texts, last,
                   entry, n_arg, call, stmt, datasets>>

\* set_xlabel, set_ylabel, set_ylim, legend, tight_layout, subplots_adjust
Decorate ==
    /\ AtExample
    /\ Stmt.kind \in {"decor", "layout"}
    /\ figs' = [figs EXCEPT ![Cur] = Record(@, Stmt)]
    /\ Advance
    /\ UNCHANGED <<load, ns, cmap_registry, styleVars, texts, last,
                   entry, n_arg, datasets, raised>>

\* sbnd_style.wip(ax), .preliminary(ax), .official(ax): no keyword given
DrawLabel ==
    /\ AtExample
    /\ Stmt.kind = "label"
    /\ CASE Stmt.op = "wip"         -> wip(<<Cur, Stmt.ax>>, {}, {})
         [] Stmt.op = "preliminary" -> preliminary(<<Cur, Stmt.ax>>, {}, {})
         [] Stmt.op = "official"    -> official(<<Cur, Stmt.ax>>, {}, {})
    /\ figs' = [figs EXCEPT ![Cur] = Record(@, Stmt)]
    /\ Advance
    /\ UNCHANGED <<load, ns, cmap_registry, styleVars, last,
                   entry, n_arg, datasets, raised>>

\* fig.savefig(...)
Savefig ==
    /\ AtExample
    /\ Stmt.kind = "save"
    /\ figs' = [figs EXCEPT ![Cur] = [Record(@, Stmt) EXCEPT !.saves = @ + 1]]
    /\ Advance
    /\ UNCHANGED <<load, ns, cmap_registry, styleVars, texts, last,
                   entry, n_arg, datasets, raised>>

\* plt.close(fig)
CloseFig ==
    /\ AtExample
    /\ Stmt.kind = "close"
    /\ figs' = [figs EXCEPT ![Cur] = [Record(@, Stmt) EXCEPT !.state = "closed"]]
    /\ Advance
    /\ UNCHANGED <<load, ns, cmap_registry, styleVars, texts, last,
                   entry, n_arg, datasets, raised>>

----------------------------------------------------------------------------
(* Specifications                                                          *)

Load == LoadPalette \/ LoadSea \/ LoadSymmetric \/ LoadStyle

NoDemo ==
    /\ entry = "none"
    /\ n_arg = 0
    /\ call = 0
    /\ stmt = 0
    /\ datasets = <<>>
    /\ figs = NoNames
    /\ raised = FALSE

BeforeImport ==
    /\ load = "start"
    /\ ns = NoNames
    /\ cmap_registry = NoNames
    /\ edits = 0
    /\ texts = <<>>
    /\ last = Idle

\* the style applicator, from any configuration the process held before
InitStyle ==
    /\ BeforeImport
    /\ rcParams \in PriorConfigs
    /\ rcBefore = rcParams
    /\ NoDemo

NextStyle == Load \/ CallSetSbndStyle \/ RcSet

SpecStyle == InitStyle /\ [][NextStyle]_vars

\* the label composer
InitLabel ==
    /\ BeforeImport
    /\ rcParams = LibraryConfig
    /\ rcBefore = rcParams
    /\ NoDemo

NextLabel == Load \/ CallTextLabel \/ CallWip \/ CallPreliminary \/ CallOfficial

SpecLabel == InitLabel /\ [][NextLabel]_vars

\* the demonstration script: python test.py, or a caller of its examples
InitDemo ==
    /\ BeforeImport
    /\ rcParams = LibraryConfig
    /\ rcBefore = rcParams
    /\ \/ entry = "main" /\ n_arg = 0
       \/ entry \in {"stacked", "overlay"} /\ n_arg \in 1..MaxHists
    /\ call = 1
    /\ stmt = 1
    /\ datasets = <<>>
    /\ figs = NoNames
    /\ raised = FALSE

NextDemo ==
    Load \/ GaussHists \/ Subplots \/ DrawData \/ HistRaises \/ Decorate
         \/ DrawLabel \/ Savefig \/ CloseFig

SpecDemo == InitDemo /\ [][NextDemo]_vars

----------------------------------------------------------------------------
(* What a drawn text shows: a reading of the mathtext string               *)

Letters ==
    {"a", "b", "c", "d", "e", "f", "g", "h", "i", "j", "k", "l", "m",
     "n", "o", "p", "q", "r", "s", "t", "u", "v", "w", "x", "y", "z",
     "A", "B", "C", "D", "E", "F", "G", "H", "I", "J", "K", "L", "M",
     "N", "O", "P", "Q", "R", "S", "T", "U", "V", "W", "X", "Y", "Z"}

\* the first position from i on that holds no letter
NameEnd(s, i) ==
    CHOOSE j \in i..(Len(s) + 1) :
        /\ \A k \in i..(j - 1) : s[k] \in Letters
        /\ j = Len(s) + 1 \/ s[j] \notin Letters

FontOf(cmd) ==
    CASE cmd = mathrm -> "rm"
      [] cmd = mathbf -> "bf"
      [] cmd = mathit -> "it"
      [] OTHER        -> "unknown"

\* The glyphs of s from position i on, in order.  stack holds the font of
\* each open group, innermost first; pend is the font command waiting for
\* its group.  A backslash followed by ; is a space that is kept, a plain
\* space is dropped (math mode collapses it), $ { } and command names show
\* nothing.
RECURSIVE Glyphs(_, _, _, _)
Glyphs(s, i, stack, pend) ==
    IF i > Len(s) THEN <<>>
    ELSE LET c == s[i] IN
         CASE c = "$" -> Glyphs(s, i + 1, stack, pend)
           [] c = BS ->
                IF i < Len(s) /\ s[i + 1] = ";"
                THEN <<[ch |-> " ", font |-> "space"]>> \o Glyphs(s, i + 2, stack, pend)
                ELSE LET j == NameEnd(s, i + 1)
                     IN  Glyphs(s, j, stack, FontOf(SubSeq(s, i, j - 1)))
           [] c = "{" ->
                Glyphs(s, i + 1, <<IF pend = "" THEN stack[1] ELSE pend>> \o stack, "")
           [] c = "}" -> Glyphs(s, i + 1, Tail(stack), "")
           [] c = " " -> Glyphs(s, i + 1, stack, pend)
           [] OTHER -> <<[ch |-> c, font |-> stack[1]]>> \o Glyphs(s, i + 1, stack, pend)

Rendered(s) == Glyphs(s, 1, <<"math">>, "")

\* the words of a glyph sequence: the runs of glyphs between kept spaces
RECURSIVE WordsOf(_, _)
WordsOf(g, cur) ==
    IF g = <<>> THEN (IF cur = <<>> THEN <<>> ELSE <<cur>>)
    ELSE IF Head(g).font = "space"
         THEN (IF cur = <<>> THEN <<>> ELSE <<cur>>) \o WordsOf(Tail(g), <<>>)
         ELSE WordsOf(Tail(g), Append(cur, Head(g)))

VisibleWords(s) == WordsOf(Rendered(s), <<>>)

Spelling(w) == [i \in 1..Len(w) |-> w[i].ch]
IsBold(w)   == \A i \in 1..Len(w) : w[i].font = "bf"
NoBold(w)   == \A i \in 1..Len(w) : w[i].font # "bf"

HasPlainSpace(s) == \E i \in 1..Len(s) : s[i] = " "

StartsWith(s, prefix) ==
    Len(s) >= Len(prefix) /\ SubSeq(s, 1, Len(prefix)) = prefix

\* the drawn string opens with the bold command holding exactly SBND
WatermarkFirst(s) == StartsWith(s, <<"$">> \o Braced(mathbf, SBND))

LastText == texts[Len(texts)]

Conveniences == {"wip", "preliminary", "official"}

----------------------------------------------------------------------------
(* Properties                                                              *)

\* C1 as stated: every label drawn through the label composer, whichever of
\* text_label, wip, preliminary and official draws it, has the bold watermark
\* SBND as its first segment.
C1_EveryLabelStartsWithWatermark ==
    \A i \in 1..Len(texts) : WatermarkFirst(texts[i].s)

\* C1 amended: a label drawn by wip, preliminary or official, whatever
\* position and keywords it is given, has the bold watermark SBND as its first
\* segment; a label drawn by text_label itself starts with it exactly when
\* the caller's segment list starts with the bold SBND segment.
C1_ConveniencesStartWithWatermark ==
    /\ last.op \in Conveniences => WatermarkFirst(LastText.s)
    /\ last.op = "text_label" =>
          (WatermarkFirst(LastText.s) <=>
              /\ last.args.text_list # <<>>
              /\ last.args.text_list[1].s = SBND
              /\ Get(last.args.text_list[1].props, "fontweight", "normal") = "bold"
              /\ Get(last.args.text_list[1].props, "fontstyle", "normal") # "italic")

C1_Witness ==
    /\ last.op = "preliminary"
    /\ last.args.kw # {}
    /\ Len(texts) = 2
    /\ WatermarkFirst(texts[2].s)
    /\ ~WatermarkFirst(texts[1].s)

----------------------------------------------------------------------------
\* C5: in the string wip and preliminary hand to ax.text, the visible words
\* are SBND, Work, in, Progress (wip) and SBND, Preliminary (preliminary),
\* each pair of neighbours separated by the kept space \; and by no plain
\* space; SBND is set in bold and the other words are not.
C5_WordsSeparatedAndWatermarkBold ==
    last.op \in {"wip", "preliminary"} =>
        LET w == VisibleWords(LastText.s)
            expected ==
                IF last.op = "wip"
                THEN << <<"S", "B", "N", "D">>, <<"W", "o", "r", "k">>, <<"i", "n">>,
                        <<"P", "r", "o", "g", "r", "e", "s", "s">> >>
                ELSE << <<"S", "B", "N", "D">>,
                        <<"P", "r", "e", "l", "i", "m", "i", "n", "a", "r", "y">> >>
        IN  /\ [i \in 1..Len(w) |-> Spelling(w[i])] = expected
            /\ ~HasPlainSpace(LastText.s)
            /\ IsBold(w[1])
            /\ \A i \in 2..Len(w) : NoBold(w[i])

C5_Witness ==
    /\ last.op = "wip"
    /\ Len(VisibleWords(LastText.s)) = 4
    /\ LastText.s = <<"$">> \o Braced(mathbf, SBND) \o Braced(mathrm, WipSuffix) \o <<"$">>

----------------------------------------------------------------------------
\* C6: a call of text_label with an empty segment list is rejected and
\* issues no ax.text call.
C6_EmptyListRejected ==
    (last.op = "text_label" /\ last.args.text_list = <<>>) =>
        /\ last.outcome # "ok"
        /\ Len(texts) = last.before

----------------------------------------------------------------------------
\* C7: official, wip and preliminary each issue exactly one ax.text call on
\* the given axes, in axes-fraction coordinates, at the caller's (x, y), or
\* (0.05, 0.95) where the caller gives none, aligned left and top unless the
\* caller gives ha or va.
C7_OneDrawAtCallerPosition ==
    last.op \in Conveniences =>
        LET pos == last.args.pos
            kw  == last.args.kw
        IN  /\ Len(texts) = last.before + 1
            /\ LastText.ax = CallerAx
            /\ LastText.transform = "transAxes"
            /\ LastText.x = (IF \E p \in pos : p[1] = "x"
                             THEN (CHOOSE p \in pos : p[1] = "x")[2] ELSE 5)
            /\ LastText.y = (IF \E p \in pos : p[1] = "y"
                             THEN (CHOOSE p \in pos : p[1] = "y")[2] ELSE 95)
            /\ LastText.ha = (IF \E p \in kw : p[1] = "ha"
                              THEN (CHOOSE p \in kw : p[1] = "ha")[2] ELSE "left")
            /\ LastText.va = (IF \E p \in kw : p[1] = "va"
                              THEN (CHOOSE p \in kw : p[1] = "va")[2] ELSE "top")

\* official(ax, x=0.1, y=0.9), drawn on axes that already hold a text
C7_Witness ==
    /\ last.op = "official"
    /\ last.args.pos = {<<"x", 10>>, <<"y", 90>>}
    /\ last.args.kw = {}
    /\ Len(texts) = 2
    /\ LastText.x = 10 /\ LastText.y = 90
    /\ LastText.ha = "left" /\ LastText.va = "top"

----------------------------------------------------------------------------
----------------------------------------------------------------------------
\* what reading the options back shows once the style is in force
StyleApplied ==
    /\ rcParams["font.size"] = 14
    /\ rcParams["axes.linewidth"] = 2
    /\ rcParams["legend.frameon"] = FALSE
    /\ rcParams["figure.figsize"] = <<8, 6>>
    /\ rcParams["xtick.direction"] = "in"
    /\ rcParams["image.cmap"] = "cividis"
    /\ \A k \in StyleKeys : rcParams[k] = style_dict[k]

\* C3: after the style is applied with no argument, from any prior
\* configuration, every option of the default configuration reads its
\* default (font.size 14, axes.linewidth 2, legend.frameon false, ...); and
\* so it is when the import of the module has completed, before any call.
C3_DefaultsAfterApply ==
    /\ (last.op = "set_sbnd_style" /\ last.args = <<>>) => StyleApplied
    /\ (load = "done" /\ last.by = "import") => StyleApplied

C3_Witness ==
    /\ last.op = "set_sbnd_style"
    /\ last.args = <<>>
    /\ last.by = "caller"
    /\ rcBefore["font.size"] = 10
    /\ rcBefore["legend.frameon"] = TRUE
    /\ rcParams["font.size"] = 14
    /\ rcParams["legend.frameon"] = FALSE

----------------------------------------------------------------------------
\* C8: SBND_COLOR_CYCLE has exactly 4 entries, which are elements 1, 4, 6, 2
\* (0-indexed) of the 8-entry OKABE_ITO_COLOR_CYCLE, in this order.
C8_SbndCycleFromOkabeIto ==
    load # "start" =>
        LET sbnd  == ns["SBND_COLOR_CYCLE"]
            okabe == ns["OKABE_ITO_COLOR_CYCLE"]
        IN  /\ Len(okabe) = 8
            /\ Len(sbnd) = 4
            /\ sbnd = <<okabe[1 + 1], okabe[4 + 1], okabe[6 + 1], okabe[2 + 1]>>

C8_Witness ==
    /\ Done
    /\ entry = "main"
    /\ ns["SBND_COLOR_CYCLE"][1] = <<80, 30, 0>>
    /\ ns["SBND_COLOR_CYCLE"][4] = <<35, 70, 90>>
    /\ ns["OKABE_ITO_COLOR_CYCLE"][1] = <<0, 0, 0>>

----------------------------------------------------------------------------
LabelAfterAllData(e) ==
    \A i, j \in 1..Len(e) : (e[i].kind = "label" /\ e[j].kind = "data") => j < i

LabelAfterDataOfItsAxes(e) ==
    \A i, j \in 1..Len(e) :
        (e[i].kind = "label" /\ e[j].kind = "data" /\ e[j].ax = e[i].ax) => j < i

LabelBeforeSave(e) ==
    \A j \in 1..Len(e) :
        e[j].kind = "save" => \E i \in 1..(j - 1) : e[i].kind = "label"

SavedOnceThenClosed(f) ==
    /\ f.saves = Cardinality({i \in 1..Len(f.events) : f.events[i].kind = "save"})
    /\ f.saves <= 1
    /\ \A i \in 1..Len(f.events) :
          f.events[i].kind = "close" => (i = Len(f.events) /\ f.events[i - 1].kind = "save")
    /\ f.state = "closed" <=> f.events[Len(f.events)].kind = "close"

ExamplesOf(e) ==
    IF e = "main" THEN Examples
    ELSE IF e = "stacked" THEN {"stacked_example"} ELSE {"overlay_example"}

NoneOpenAtReturn ==
    Done => /\ DOMAIN figs = ExamplesOf(entry)
            /\ \A ex \in DOMAIN figs : figs[ex].state = "closed" /\ figs[ex].saves = 1

\* C9 as stated: in every example the status label is drawn after every
\* data-drawing call on every axes of the figure and before the figure is
\* saved; each figure is saved once and closed after its save, and none is
\* open when main returns.
C9_LabelAfterAllContents ==
    /\ \A ex \in DOMAIN figs :
          /\ LabelAfterAllData(figs[ex].events)
          /\ LabelBeforeSave(figs[ex].events)
          /\ SavedOnceThenClosed(figs[ex])
    /\ NoneOpenAtReturn

\* C9 amended: in every example the status label is drawn after every
\* data-drawing call on the axes that carry the label (data_mc_example draws
\* the data of its lower axes after the label of its upper axes) and before
\* the figure is saved; each figure is saved once and closed after its save,
\* and none is open when main returns.
C9_LabelAfterContentsOfItsAxes ==
    /\ \A ex \in DOMAIN figs :
          /\ LabelAfterDataOfItsAxes(figs[ex].events)
          /\ LabelBeforeSave(figs[ex].events)
          /\ SavedOnceThenClosed(figs[ex])
    /\ NoneOpenAtReturn

C9_Witness ==
    /\ Done
    /\ entry = "main"
    /\ DOMAIN figs = Examples
    /\ ~LabelAfterAllData(figs["data_mc_example"].events)
    /\ \A ex \in Examples : figs[ex].state = "closed"

----------------------------------------------------------------------------
\* C10: stacked_example hands the stacked histogram one colour per dataset:
\* for n datasets, 1 <= n <= 8, n colours, the first of them black, the
\* first colour of the style's colour cycle.
C10_OneColourPerDataset ==
    \A ex \in DOMAIN figs : \A i \in 1..Len(figs[ex].events) :
        LET c == figs[ex].events[i] IN
        (ex = "stacked_example" /\ c.op = "hist" /\ c.n \in 1..8) =>
            /\ Len(c.colors) = c.n
            /\ c.colors[1] = OKABE_ITO_BLACK

====
